---- MODULE Spec2Model ----
(***************************************************************************)
(* Model of the exploration-stages dashboard (app.py).                     *)
(*                                                                         *)
(* Start-up reads data.geojson into the process-wide table df_points,      *)
(* parses the five Update_k columns and builds status_color_map.  After    *)
(* that the three callbacks display_page, update_dashboard and             *)
(* update_map_and_bar (registered once per stage) are invoked in any       *)
(* order with any input.                                                   *)
(*                                                                         *)
(* Conventions.  Coordinates are in tenths of a degree.  A JSON/Python     *)
(* value is a tagged tuple, so that values of different Python types can   *)
(* be compared.  A date text is modelled by the sequence of the integer    *)
(* fields that its "-"-separated parts spell: "29-02-2024" is <<29,2,2024>>*)
(* and a text that is no such list of numbers is <<>>.  A pathname is the  *)
(* sequence of its characters.                                             *)
(***************************************************************************)
EXTENDS Integers, Sequences, FiniteSets, TLC

VARIABLES
    data_complete_geojson,  \* the features read from data.geojson
    phase,                  \* "start", "loaded", "parsed", "serving", "failed"
    error,                  \* the exception that ended start-up, NoError otherwise
    df_points,              \* the process-wide table, one row per feature
    status_color_map,       \* Status -> colour, built at start-up
    out                     \* the response of the callback being served, Nothing between calls

vars == <<data_complete_geojson, phase, error, df_points, status_color_map, out>>

(***************************************************************************)
(* Bounds of the model.                                                    *)
(***************************************************************************)
MaxFeatures == 3       \* features of a file drawn from FeaturePool
MaxCategories == 11    \* features of a file with one NAMOBJ per feature
MaxSlider == 3         \* largest slider value a client sends

(***************************************************************************)
(* Program constants.                                                      *)
(***************************************************************************)
NumStages == 5         \* range(1, 6)
PlotlyPaletteLen == 10 \* len(px.colors.qualitative.Plotly)
DefaultLat == -79      \* -7.9
DefaultLon == 1104     \* 110.4

(***************************************************************************)
(* Values.                                                                 *)
(***************************************************************************)
Absent == <<"absent">>                 \* the key is not in the properties
None == <<"None">>                     \* JSON null, Python None
Str(s) == <<"str", s>>
Num(n) == <<"num", n>>
Text(fields) == <<"text", fields>>
NaT == <<"NaT">>
Timestamp(y, m, d) == <<"Timestamp", (y * 10000) + (m * 100) + d>>
ValueError == <<"ValueError">>
NoError == [line |-> 0, exc |-> "none"]
Nothing == [op |-> "none"]

RECURSIVE SumSeq(_)
SumSeq(s) == IF s = <<>> THEN 0 ELSE Head(s) + SumSeq(Tail(s))

Range(s) == {s[i] : i \in DOMAIN s}

RECURSIVE Restrict(_, _)
\* the elements of s that are in S, in the order of s
Restrict(s, S) ==
    IF s = <<>> THEN <<>>
    ELSE IF Head(s) \in S THEN <<Head(s)>> \o Restrict(Tail(s), S)
    ELSE Restrict(Tail(s), S)

RECURSIVE SortedSeq(_)
\* sorted(S) for a set of integers
SortedSeq(S) ==
    IF S = {} THEN <<>>
    ELSE LET least == CHOOSE x \in S : \A y \in S : x <= y
         IN  <<least>> \o SortedSeq(S \ {least})

RECURSIVE unique(_)
\* Series.unique(): the distinct values in order of first appearance
unique(s) ==
    IF s = <<>> THEN <<>>
    ELSE LET rest == unique(SubSeq(s, 1, Len(s) - 1))
             last == s[Len(s)]
         IN  IF last \in Range(rest) THEN rest ELSE Append(rest, last)

(***************************************************************************)
(* The data file.                                                          *)
(***************************************************************************)
Feature(lon, lat, namobj, status, updates) ==
    [coordinates |-> <<lon, lat>>,
     properties |-> [NAMOBJ |-> namobj, Status |-> status, Update |-> updates]]

FeaturePool ==
    { Feature(1104, -79, Str("A"), Num(0),
              <<Text(<<1, 1, 2024>>), Text(<<2, 1, 2024>>), Absent, None, Text(<<>>)>>),
      Feature(1106, -77, Str("A"), Num(1),
              <<Text(<<2, 1, 2024>>), Text(<<1, 1, 2024>>), Text(<<31, 2, 2024>>), Absent, Absent>>),
      Feature(1102, -81, Str("B"), Num(2),
              <<Text(<<29, 2, 2024>>), Text(<<29, 2, 2023>>), Text(<<1, 13, 2024>>),
                Text(<<1, 2024>>), None>>),
      Feature(1105, -78, None, Absent,
              <<Text(<<1, 1, 2024>>), Absent, Text(<<31, 12, 2023>>), Text(<<31, 4, 2024>>), Absent>>),
      Feature(1103, -80, Absent, Num(1),
              <<None, Text(<<3, 1, 2024>>), Text(<<5, 1, 2024>>), Text(<<0, 1, 2024>>), Absent>>),
      Feature(1107, -76, Str("B"), Num(0),
              <<Text(<<3, 1, 2024>>), Text(<<2, 1, 2024>>), Absent, Absent, Text(<<30, 4, 2024>>)>>) }

CategoryNames ==
    <<"K01", "K02", "K03", "K04", "K05", "K06", "K07", "K08", "K09", "K10",
      "K11", "K12", "K13", "K14">>

\* n features, each with a NAMOBJ of its own, all dated in Update_1
WideFile(n) ==
    [i \in 1..n |->
        Feature(1100 + i, -79, Str(CategoryNames[i]), Num(i % 2),
                <<Text(<<1 + (i % 2), 1, 2024>>), Absent, Absent, Absent, Absent>>)]

MixedFiles == UNION { [1..n -> FeaturePool] : n \in 0..MaxFeatures }
WideFiles == { WideFile(n) : n \in 1..MaxCategories }
Files == MixedFiles \cup WideFiles

(***************************************************************************)
(* Start-up, lines 11-32: the features become the rows of df_points.       *)
(***************************************************************************)
Get(value, default) == IF value = Absent THEN default ELSE value

points(features) ==
    [i \in 1..Len(features) |->
        LET coords == features[i].coordinates
            props == features[i].properties
        IN  [lon |-> coords[1],
             lat |-> coords[2],
             NAMOBJ |-> Get(props.NAMOBJ, Str("Unknown")),
             Status |-> Get(props.Status, Num(0))[2],
             Update |-> [k \in 1..NumStages |-> Get(props.Update[k], None)]]]

(***************************************************************************)
(* Start-up, lines 33-34: pd.to_datetime(format='%d-%m-%Y',                *)
(* errors='coerce') on each Update_k column.                               *)
(***************************************************************************)
IsLeap(y) == (y % 4 = 0 /\ y % 100 # 0) \/ y % 400 = 0

DaysInMonth(m, y) ==
    IF m = 2 THEN (IF IsLeap(y) THEN 29 ELSE 28)
    ELSE IF m \in {4, 6, 9, 11} THEN 30 ELSE 31

\* the text against '%d-%m-%Y': the Timestamp it spells, or ValueError
strptime(fields) ==
    IF Len(fields) # 3 THEN ValueError
    ELSE LET d == fields[1]
             m == fields[2]
             y == fields[3]
         IN  IF m < 1 \/ m > 12 THEN ValueError
             ELSE IF d < 1 \/ d > DaysInMonth(m, y) THEN ValueError
             ELSE Timestamp(y, m, d)

\* errors='raise', the default of pd.to_datetime
to_datetime_raise(value) ==
    IF value = None THEN NaT ELSE strptime(value[2])

to_datetime(value) ==
    IF value = None THEN NaT
    ELSE LET parsed == strptime(value[2])
         IN  IF parsed = ValueError THEN NaT ELSE parsed

ParsedTable(df) ==
    [i \in 1..Len(df) |->
        [df[i] EXCEPT !.Update = [k \in 1..NumStages |-> to_datetime(df[i].Update[k])]]]

\* Timestamp.strftime('%d-%m-%Y'): the fields of the text
strftime(ts) == <<ts[2] % 100, (ts[2] \div 100) % 100, ts[2] \div 10000>>

(***************************************************************************)
(* Start-up, lines 37-39: the status colours.  A Viridis sample is named   *)
(* by its sample point <<i, status_range>>, the fraction i / status_range. *)
(***************************************************************************)
SeqMax(s) == CHOOSE x \in Range(s) : \A y \in Range(s) : y <= x
SeqMin(s) == CHOOSE x \in Range(s) : \A y \in Range(s) : x <= y

StatusColumn(df) == [i \in 1..Len(df) |-> df[i].Status]

\* Python's list[i]: a negative index counts from the end
InIndexRange(list, i) == -Len(list) <= i /\ i < Len(list)
PyIndex(list, i) == IF i >= 0 THEN list[i + 1] ELSE list[Len(list) + i + 1]


viridis_colors(status_range) ==
    [j \in 1..(status_range + 1) |-> <<j - 1, status_range>>]

\* the exception lines 37-39 end with, NoError when they complete.  With one
\* Status value status_range is 0 and i / status_range is no sample point
\* (ZeroDivisionError for a Python int, NaN for a NumPy integer, which no
\* colour can be sampled at).
StatusColorError(df) ==
    LET smin == SeqMin(StatusColumn(df))
        smax == SeqMax(StatusColumn(df))
        status_range == smax - smin
    IN  IF status_range = 0
        THEN [line |-> 38, exc |-> "no sample point 0/0"]
        ELSE IF \E status \in smin..smax :
                    ~InIndexRange(viridis_colors(status_range), status)
        THEN [line |-> 39, exc |-> "IndexError"]
        ELSE NoError

StatusColorMap(df) ==
    LET smin == SeqMin(StatusColumn(df))
        smax == SeqMax(StatusColumn(df))
    IN  [status \in smin..smax |-> PyIndex(viridis_colors(smax - smin), status)]

(***************************************************************************)
(* display_page, lines 126-136.                                            *)
(***************************************************************************)
Digits == <<"0", "1", "2", "3", "4", "5", "6", "7", "8", "9">>
IsDigit(c) == c \in Range(Digits)
DigitValue(c) == (CHOOSE i \in DOMAIN Digits : Digits[i] = c) - 1

startswith(s, prefix) ==
    Len(s) >= Len(prefix) /\ SubSeq(s, 1, Len(prefix)) = prefix

RECURSIVE split(_, _)
split(s, sep) ==
    IF \A i \in DOMAIN s : s[i] # sep THEN <<s>>
    ELSE LET i == CHOOSE i \in DOMAIN s : s[i] = sep /\ \A j \in 1..(i - 1) : s[j] # sep
         IN  <<SubSeq(s, 1, i - 1)>> \o split(SubSeq(s, i + 1, Len(s)), sep)

\* int(): an optional sign, then digits, single underscores between digits allowed
IntBody(token) ==
    IF token # <<>> /\ token[1] \in {"+", "-"} THEN Tail(token) ELSE token

IsIntLiteral(token) ==
    LET body == IntBody(token)
    IN  /\ body # <<>>
        /\ \A i \in DOMAIN body :
              \/ IsDigit(body[i])
              \/ /\ body[i] = "_"
                 /\ i > 1 /\ i < Len(body)
                 /\ IsDigit(body[i - 1]) /\ IsDigit(body[i + 1])

RECURSIVE DigitsValue(_, _)
DigitsValue(body, acc) ==
    IF body = <<>> THEN acc
    ELSE IF Head(body) = "_" THEN DigitsValue(Tail(body), acc)
    ELSE DigitsValue(Tail(body), (acc * 10) + DigitValue(Head(body)))

int(token) ==
    IF token[1] = "-" THEN 0 - DigitsValue(IntBody(token), 0)
    ELSE DigitsValue(IntBody(token), 0)

H1(text) == [kind |-> "H1", children |-> text]
summary_layout == [kind |-> "summary_layout"]

\* lines 112-116: the slider starts with min 0, max 1, value 0 and no marks
create_stage_layout(stage) ==
    [kind |-> "stage_layout", stage |-> stage,
     slider |-> [min |-> 0, max |-> 1, value |-> 0, marks |-> <<>>]]

RootPath == <<"/">>
SummaryPath == <<"/", "s", "u", "m", "m", "a", "r", "y">>
StagePrefix == <<"/", "s", "t", "a", "g", "e", "-">>

display_page(pathname) ==
    IF pathname \in {RootPath, SummaryPath} THEN summary_layout
    ELSE IF startswith(pathname, StagePrefix)
    THEN LET parts == split(pathname, "-")
         IN  IF Len(parts) < 2 THEN H1("Invalid Page")          \* IndexError
             ELSE IF ~IsIntLiteral(parts[2]) THEN H1("Invalid Page")  \* ValueError
             ELSE create_stage_layout(int(parts[2]))
    ELSE H1("404 - Page Not Found")

Pathnames ==
    { RootPath, SummaryPath, <<>>, <<"/", "x">>, <<"/", "s", "t", "a", "g", "e">>,
      StagePrefix,
      StagePrefix \o <<"1">>, StagePrefix \o <<"2">>, StagePrefix \o <<"3">>,
      StagePrefix \o <<"4">>, StagePrefix \o <<"5">>,
      StagePrefix \o <<"0">>, StagePrefix \o <<"6">>, StagePrefix \o <<"9">>,
      StagePrefix \o <<"1", "2">>, StagePrefix \o <<"x">>, StagePrefix \o <<"1", "x">>,
      StagePrefix \o <<"-", "1">>, StagePrefix \o <<"+", "7">>,
      StagePrefix \o <<"2", "-", "x">>, StagePrefix \o <<"1", "_", "0">>,
      StagePrefix \o <<"_", "1">>,
      SummaryPath \o <<"/">> }

(***************************************************************************)
(* update_dashboard, lines 143-172.  A frame (filtered_df, stage_df) is    *)
(* the ascending sequence of the index labels of df_points it keeps.       *)
(***************************************************************************)
Index(df) == [i \in 1..Len(df) |-> i]
NaN == <<"NaN">>

\* Series.isin(values); None matches None
isin_dropna(value, values) == value # None /\ value \in values

isin(value, values) == value \in values

\* a mean is the pair <<sum, count>>, the fraction sum / count
MapCenterMean(df, filtered) ==
    [lat |-> <<SumSeq([j \in 1..Len(filtered) |-> df[filtered[j]].lat]), Len(filtered)>>,
     lon |-> <<SumSeq([j \in 1..Len(filtered) |-> df[filtered[j]].lon]), Len(filtered)>>]

\* line 145
MapCenter(df, filtered) ==
    IF filtered = <<>>
    THEN [lat |-> <<DefaultLat, 1>>, lon |-> <<DefaultLon, 1>>]
    ELSE MapCenterMean(df, filtered)

\* line 144
FilterByNamobj(df, selected_namobj) ==
    Restrict(Index(df), {i \in 1..Len(df) : isin(df[i].NAMOBJ, selected_namobj)})

\* groupby(["NAMOBJ", "Status"]).size(): groups with a null key are dropped
StatusCounts(df, frame) ==
    LET keys == {<<df[i].NAMOBJ, df[i].Status>> : i \in {j \in Range(frame) : df[j].NAMOBJ # None}}
    IN  { [NAMOBJ |-> key[1], Status |-> key[2],
           Count |-> Cardinality({i \in Range(frame) :
                                     df[i].NAMOBJ = key[1] /\ df[i].Status = key[2]})]
          : key \in keys }

\* lines 165-170 for one stage
ProgressCounts(df, stage_df, stage) ==
    LET keys == {<<df[i].NAMOBJ, df[i].Update[stage]>> :
                    i \in {j \in Range(stage_df) : df[j].NAMOBJ # None}}
    IN  { [NAMOBJ |-> key[1], Date |-> key[2],
           count |-> Cardinality({i \in Range(stage_df) :
                                     df[i].NAMOBJ = key[1] /\ df[i].Update[stage] = key[2]})]
          : key \in keys }

RECURSIVE ProgressPlots(_, _, _)
\* lines 163-170: one plot per stage from `stage` on with a dated row
ProgressPlots(df, filtered, stage) ==
    IF stage > NumStages THEN <<>>
    ELSE LET stage_df == Restrict(filtered, {i \in 1..Len(df) : df[i].Update[stage] # NaT})
         IN  IF stage_df # <<>>
             THEN <<[stage |-> stage, data |-> ProgressCounts(df, stage_df, stage)]>>
                  \o ProgressPlots(df, filtered, stage + 1)
             ELSE ProgressPlots(df, filtered, stage + 1)

DashboardFigures(df, color_map, selected_namobj) ==
    LET filtered == FilterByNamobj(df, selected_namobj)
        n == Len(filtered)
    IN  [map_fig |->
            [index |-> filtered,
             lat |-> [j \in 1..n |-> df[filtered[j]].lat],
             lon |-> [j \in 1..n |-> df[filtered[j]].lon],
             color |-> [j \in 1..n |->
                          IF df[filtered[j]].Status \in DOMAIN color_map
                          THEN color_map[df[filtered[j]].Status] ELSE NaN],
             center |-> MapCenter(df, filtered)],
         bar_fig |-> [data |-> StatusCounts(df, filtered)],
         progress_plots |-> ProgressPlots(df, filtered, 1)]

\* the filter applied to the process-wide table itself, without .copy()
update_dashboard_inplace(df, color_map, selected_namobj) ==
    [df_points |-> [j \in 1..Len(FilterByNamobj(df, selected_namobj)) |->
                       df[FilterByNamobj(df, selected_namobj)[j]]],
     returns |-> DashboardFigures(df, color_map, selected_namobj)]

\* the table after the call, and what the call returns
update_dashboard(df, color_map, selected_namobj) ==
    [df_points |-> df,
     returns |-> DashboardFigures(df, color_map, selected_namobj)]

\* the options of the checklist, lines 82-83
ChecklistOptions(df) == {df[i].NAMOBJ : i \in 1..Len(df)}

(***************************************************************************)
(* update_map_and_bar, lines 183-247, as registered for `stage`.           *)
(***************************************************************************)
Min(a, b) == IF a < b THEN a ELSE b

\* value_counts(): null values are not counted
NamobjCounts(df, frame) ==
    { [NAMOBJ |-> namobj,
       Count |-> Cardinality({i \in Range(frame) : df[i].NAMOBJ = namobj})]
      : namobj \in {df[i].NAMOBJ : i \in Range(frame)} \ {None} }

\* lines 205-214: the rows a trace plots; None == None selects no row
MapTrace(df, filtered, color_map, namobj) ==
    LET rows == Restrict(filtered, {i \in 1..Len(df) : namobj # None /\ df[i].NAMOBJ = namobj})
    IN  [name |-> namobj,
         color |-> color_map[namobj],
         index |-> rows,
         lat |-> [j \in 1..Len(rows) |-> df[rows[j]].lat],
         lon |-> [j \in 1..Len(rows) |-> df[rows[j]].lon]]

update_map_and_bar(df, slider_value, stage) ==
    LET stage_col == stage
        stage_df == Restrict(Index(df), {i \in 1..Len(df) : df[i].Update[stage_col] # NaT})
    IN  IF stage_df = <<>>
        THEN [raised |-> "none", filtered |-> <<>>,
              returns |-> [min |-> 0, max |-> 1, marks |-> <<>>,
                           map_fig |-> [data |-> <<>>], bar_fig |-> [data |-> {}]]]
        ELSE
        LET unique_dates == SortedSeq({df[i].Update[stage_col][2] : i \in Range(stage_df)})
            n == Len(unique_dates)
            date_marks == [i \in 0..(n - 1) |-> strftime(<<"Timestamp", unique_dates[i + 1]>>)]
            slider_index == slider_value
            date_selected == IF slider_index < n THEN unique_dates[slider_index + 1]
                             ELSE unique_dates[n]
            filtered == Restrict(stage_df,
                           {i \in 1..Len(df) : df[i].Update[stage_col] # NaT
                                               /\ df[i].Update[stage_col][2] <= date_selected})
            unique_namobjs == unique([j \in 1..Len(filtered) |-> df[filtered[j]].NAMOBJ])
            zipped == Min(Len(unique_namobjs), PlotlyPaletteLen)
            color_map == [namobj \in {unique_namobjs[j] : j \in 1..zipped} |->
                             CHOOSE j \in 1..zipped : unique_namobjs[j] = namobj]
        IN  IF \E j \in DOMAIN unique_namobjs : unique_namobjs[j] \notin DOMAIN color_map
            THEN [raised |-> "KeyError", filtered |-> filtered]
            ELSE [raised |-> "none", filtered |-> filtered,
                  returns |->
                     [min |-> 0, max |-> n - 1, marks |-> date_marks,
                      map_fig |-> [data |-> [j \in DOMAIN unique_namobjs |->
                                      MapTrace(df, filtered, color_map, unique_namobjs[j])]],
                      bar_fig |-> [data |-> NamobjCounts(df, filtered)]]]

(***************************************************************************)
(* The state machine.                                                      *)
(***************************************************************************)
Init ==
    /\ data_complete_geojson \in Files
    /\ phase = "start"
    /\ error = NoError
    /\ df_points = <<>>
    /\ status_color_map = <<>>
    /\ out = Nothing

\* lines 11-32
LoadData ==
    /\ phase = "start"
    /\ df_points' = points(data_complete_geojson)
    /\ phase' = "loaded"
    /\ UNCHANGED <<data_complete_geojson, error, status_color_map, out>>

\* lines 33-34; a frame built from no row has no Update_1 column
ParseDates ==
    /\ phase = "loaded"
    /\ IF df_points = <<>>
       THEN /\ phase' = "failed"
            /\ error' = [line |-> 34, exc |-> "KeyError"]
            /\ UNCHANGED df_points
       ELSE IF \E i \in DOMAIN df_points, k \in 1..NumStages :
                   ParsedTable(df_points)[i].Update[k] = ValueError
       THEN /\ phase' = "failed"
            /\ error' = [line |-> 34, exc |-> "ValueError"]
            /\ UNCHANGED df_points
       ELSE /\ phase' = "parsed"
            /\ df_points' = ParsedTable(df_points)
            /\ UNCHANGED error
    /\ UNCHANGED <<data_complete_geojson, status_color_map, out>>

\* lines 37-39
BuildStatusColors ==
    /\ phase = "parsed"
    /\ IF StatusColorError(df_points) # NoError
       THEN /\ phase' = "failed"
            /\ error' = StatusColorError(df_points)
            /\ UNCHANGED status_color_map
       ELSE /\ phase' = "serving"
            /\ status_color_map' = StatusColorMap(df_points)
            /\ UNCHANGED error
    /\ UNCHANGED <<data_complete_geojson, df_points, out>>

DisplayPage ==
    /\ phase = "serving"
    /\ out = Nothing
    /\ \E pathname \in Pathnames :
          out' = [op |-> "display_page", pathname |-> pathname,
                  returns |-> display_page(pathname)]
    /\ UNCHANGED <<data_complete_geojson, phase, error, df_points, status_color_map>>

UpdateDashboard ==
    /\ phase = "serving"
    /\ out = Nothing
    /\ \E selected_namobj \in SUBSET ChecklistOptions(df_points) :
          LET call == update_dashboard(df_points, status_color_map, selected_namobj)
          IN  /\ df_points' = call.df_points
              /\ out' = [op |-> "update_dashboard", selected_namobj |-> selected_namobj,
                         returns |-> call.returns]
    /\ UNCHANGED <<data_complete_geojson, phase, error, status_color_map>>

UpdateMapAndBar ==
    /\ phase = "serving"
    /\ out = Nothing
    /\ \E stage \in 1..NumStages, slider_value \in 0..MaxSlider :
          out' = [op |-> "update_map_and_bar", stage |-> stage,
                  slider_value |-> slider_value]
                 @@ update_map_and_bar(df_points, slider_value, stage)
    /\ UNCHANGED <<data_complete_geojson, phase, error, df_points, status_color_map>>

\* the response is sent; the figures of a call are kept nowhere
Respond ==
    /\ phase = "serving"
    /\ out # Nothing
    /\ out' = Nothing
    /\ UNCHANGED <<data_complete_geojson, phase, error, df_points, status_color_map>>

Next ==
    \/ LoadData
    \/ ParseDates
    \/ BuildStatusColors
    \/ DisplayPage
    \/ UpdateDashboard
    \/ UpdateMapAndBar
    \/ Respond

Spec == Init /\ [][Next]_vars

(***************************************************************************)
(* Properties.  What a property expects is computed from the features of   *)
(* the data file, not from the table the callbacks read.                   *)
(***************************************************************************)
RECURSIVE SumOver(_, _)
\* the sum of f[x] over the x of S
SumOver(f, S) ==
    IF S = {} THEN 0
    ELSE LET x == CHOOSE x \in S : TRUE
         IN  f[x] + SumOver(f, S \ {x})

RECURSIVE SumCounts(_)
SumCounts(rows) ==
    IF rows = {} THEN 0
    ELSE LET row == CHOOSE row \in rows : TRUE
         IN  row.Count + SumCounts(rows \ {row})

FeatureIds == DOMAIN data_complete_geojson
FeatureNamobj(i) ==
    LET value == data_complete_geojson[i].properties.NAMOBJ
    IN  IF value = Absent THEN Str("Unknown") ELSE value
FeatureLon(i) == data_complete_geojson[i].coordinates[1]
FeatureLat(i) == data_complete_geojson[i].coordinates[2]
FeatureLats == [i \in FeatureIds |-> FeatureLat(i)]
FeatureLons == [i \in FeatureIds |-> FeatureLon(i)]

SameFraction(a, b) == a[2] > 0 /\ b[2] > 0 /\ a[1] * b[2] = b[1] * a[2]

\* C1: display_page answers every pathname other than "/", "/summary" and
\* "/stage-1" .. "/stage-5" with a not-found heading, never with a layout.
C1_InvalidPathNotFound ==
    LET valid == {RootPath, SummaryPath}
                 \cup {StagePrefix \o <<Digits[n + 1]>> : n \in 1..NumStages}
    IN  (out.op = "display_page" /\ out.pathname \notin valid)
            => out.returns.kind = "H1"

\* C2: the Count values of the status bar chart of update_dashboard and of the
\* NAMOBJ bar chart of update_map_and_bar each sum to the number of rows of the
\* filtered table of that call.
C2_CountsSumToFilteredRows ==
    /\ out.op = "update_dashboard"
          => SumCounts(out.returns.bar_fig.data) = Len(out.returns.map_fig.index)
    /\ (out.op = "update_map_and_bar" /\ out.raised = "none")
          => SumCounts(out.returns.bar_fig.data) = Len(out.filtered)

\* C3: the rows update_dashboard plots for a selected set S are exactly the
\* rows of the loaded file whose NAMOBJ is in S, whatever was called before.
C3_FilterIsFunctionOfSelection ==
    out.op = "update_dashboard" =>
        LET plotted == out.returns.map_fig
            expected == {i \in FeatureIds : FeatureNamobj(i) \in out.selected_namobj}
        IN  /\ Range(plotted.index) = expected
            /\ Len(plotted.index) = Cardinality(expected)
            /\ \A j \in DOMAIN plotted.index :
                  /\ plotted.lat[j] = FeatureLat(plotted.index[j])
                  /\ plotted.lon[j] = FeatureLon(plotted.index[j])

\* a call that kept some rows of the table and dropped others
C3_Witness ==
    /\ out.op = "update_dashboard"
    /\ out.returns.map_fig.index # <<>>
    /\ Len(out.returns.map_fig.index) < Len(df_points)
    /\ None \in out.selected_namobj

\* C4: once start-up has finished no callback changes df_points or
\* status_color_map.
C4_TableReadOnlyAfterLoad ==
    [][phase = "serving" =>
          /\ df_points' = df_points
          /\ status_color_map' = status_color_map]_vars

\* update_dashboard has filtered the table down to a proper part of it
C4_Witness ==
    /\ phase = "serving"
    /\ out.op = "update_dashboard"
    /\ Len(out.returns.map_fig.index) < Len(df_points)
    /\ df_points = ParsedTable(points(data_complete_geojson))

\* C5 as stated: the map is centred on the default centre exactly when no row
\* has its NAMOBJ in the selected set.
C5_DefaultCenterIffEmpty ==
    out.op = "update_dashboard" =>
        LET center == out.returns.map_fig.center
            selected == {i \in FeatureIds : FeatureNamobj(i) \in out.selected_namobj}
        IN  (/\ SameFraction(center.lat, <<DefaultLat, 1>>)
             /\ SameFraction(center.lon, <<DefaultLon, 1>>)) <=> selected = {}

\* C5 as amended: with no row selected the map is centred on the default
\* centre and the call returns no progress plot; otherwise the centre is the
\* mean latitude and longitude of the selected rows.
C5_EmptySelectionDefaultCenter ==
    out.op = "update_dashboard" =>
        LET center == out.returns.map_fig.center
            selected == {i \in FeatureIds : FeatureNamobj(i) \in out.selected_namobj}
        IN  IF selected = {}
            THEN /\ SameFraction(center.lat, <<DefaultLat, 1>>)
                 /\ SameFraction(center.lon, <<DefaultLon, 1>>)
                 /\ out.returns.map_fig.index = <<>>
                 /\ out.returns.bar_fig.data = {}
                 /\ out.returns.progress_plots = <<>>
            ELSE /\ SameFraction(center.lat,
                                 <<SumOver(FeatureLats, selected), Cardinality(selected)>>)
                 /\ SameFraction(center.lon,
                                 <<SumOver(FeatureLons, selected), Cardinality(selected)>>)

\* the empty selection on a table that has rows
C5_Witness ==
    /\ out.op = "update_dashboard"
    /\ out.selected_namobj = {}
    /\ df_points # <<>>
    /\ out.returns.progress_plots = <<>>

MonthLengths == <<31, 28, 31, 30, 31, 30, 31, 31, 30, 31, 30, 31>>

IsCalendarDate(d, m, y) ==
    /\ m \in 1..12
    /\ d >= 1
    /\ \/ d <= MonthLengths[m]
       \/ m = 2 /\ d = 29 /\ y % 4 = 0 /\ (y % 100 # 0 \/ y % 400 = 0)

DatesParsed ==
    \/ phase \in {"parsed", "serving"}
    \/ phase = "failed" /\ error.line > 34

FeatureDate(i, k) ==
    LET raw == data_complete_geojson[i].properties.Update[k]
    IN  IF /\ raw[1] = "text"
           /\ Len(raw[2]) = 3
           /\ IsCalendarDate(raw[2][1], raw[2][2], raw[2][3])
        THEN (raw[2][3] * 10000) + (raw[2][2] * 100) + raw[2][1]
        ELSE 0

StageDates(k) == {FeatureDate(i, k) : i \in FeatureIds} \ {0}

\* the rows of all the traces of a stage map
ShownRows(map_fig) ==
    UNION {Range(map_fig.data[j].index) : j \in DOMAIN map_fig.data}

\* C7: the callback of stage k shows, for slider value i, exactly the rows
\* whose Update_k is present and not later than the i-th smallest distinct
\* Update_k date, and all rows with a present Update_k when i is at or beyond
\* the number of distinct dates.
C7_StageFiltersOwnColumn ==
    out.op = "update_map_and_bar" =>
        LET k == out.stage
            dates == StageDates(k)
            cutoff == IF out.slider_value < Cardinality(dates)
                      THEN CHOOSE d \in dates :
                              Cardinality({e \in dates : e < d}) = out.slider_value
                      ELSE CHOOSE d \in dates : \A e \in dates : e <= d
            expected == IF dates = {} THEN {}
                        ELSE {i \in FeatureIds :
                                 FeatureDate(i, k) # 0 /\ FeatureDate(i, k) <= cutoff}
        IN  /\ out.raised = "none"
            /\ ShownRows(out.returns.map_fig) = expected

\* C8: with n >= 1 distinct present dates the callback of stage k returns
\* min 0, max n - 1 and marks with keys 0 .. n - 1 whose dates ascend
\* strictly; with no present date it returns min 0, max 1, empty marks and
\* empty figures, and it does not raise.
C8_SliderConfiguredByCallback ==
    out.op = "update_map_and_bar" =>
        LET n == Cardinality(StageDates(out.stage))
            DateOfMark(mark) == (mark[3] * 10000) + (mark[2] * 100) + mark[1]
        IN  /\ out.raised = "none"
            /\ out.returns.min = 0
            /\ IF n >= 1
               THEN /\ out.returns.max = n - 1
                    /\ DOMAIN out.returns.marks = 0..(n - 1)
                    /\ \A i, j \in 0..(n - 1) :
                          i < j => DateOfMark(out.returns.marks[i])
                                      < DateOfMark(out.returns.marks[j])
               ELSE /\ out.returns.max = 1
                    /\ out.returns.marks = <<>>
                    /\ out.returns.map_fig.data = <<>>
                    /\ out.returns.bar_fig.data = {}

\* C9: building status_color_map fails for no table, every Status of the
\* table has an entry, the smallest Status has the first Viridis sample and
\* the largest the last.
C9_StatusColorMapDefined ==
    /\ ~(phase = "failed" /\ error.line \in 37..39)
    /\ phase = "serving" =>
          LET statuses == {df_points[i].Status : i \in DOMAIN df_points}
              smin == CHOOSE s \in statuses : \A t \in statuses : s <= t
              smax == CHOOSE s \in statuses : \A t \in statuses : t <= s
          IN  /\ statuses \subseteq DOMAIN status_color_map
              /\ status_color_map[smin] = <<0, smax - smin>>
              /\ status_color_map[smax] = <<smax - smin, smax - smin>>

\* C10: on a stage page every NAMOBJ among the date-filtered rows has a
\* colour, so that no trace fails on a missing colour.
C10_EveryCategoryHasColor ==
    out.op = "update_map_and_bar" => out.raised # "KeyError"

====
